---- MODULE Spec2Model ----
(***************************************************************************)
(* queuectl: a persistent job queue (SQLite table `jobs`), a queue manager *)
(* (enqueue, retry_dlq_job) and polling workers.  Every SQL statement or   *)
(* committed transaction is one atomic step; a method made of several      *)
(* statements on separate transactions is several steps.                   *)
(***************************************************************************)
EXTENDS Integers, Sequences, FiniteSets, TLC

\* ------------------------------------------------------------------ bounds
NumWorkers == 2
MaxJobs == 2
MaxRetriesArg == 1
MaxClock == 1
\* started workers times jobs in the store, in SpecProgress
MaxLoad == 4

\* ------------------------------------------------------------------ models.py
PENDING == "pending"
PROCESSING == "processing"
COMPLETED == "completed"
FAILED == "failed"
DEAD == "dead"

JobState == {PENDING, PROCESSING, COMPLETED, FAILED, DEAD}

\* SQL NULL / Python None, and a present value v, for a nullable column
NULL == <<>>
Some(v) == <<v>>

\* models.Job.__init__: the fields a Job object carries (no lock fields)
Job(id, command, state, attempts, max_retries, created_at, updated_at) ==
    [id |-> id, command |-> command, state |-> state, attempts |-> attempts,
     max_retries |-> max_retries, created_at |-> created_at,
     updated_at |-> updated_at]

\* a worker or client that holds no Job object
NoJob == Job(0, "", PENDING, 0, 0, 0, 0)

\* ------------------------------------------------------------------ config.py
\* Config.DEFAULTS["max_retries"]
DefaultMaxRetries == 3

\* a configuration value: an int or a str, as `config set` parses them
IntValue(n) == <<"int", n>>
StrValue(t) == <<"str", t>>
\* Python None, the default of the `default` parameter of Config.get
None == <<"none", "None">>

\* Config.DEFAULTS
DEFAULTS ==
    [k \in {"max_retries", "backoff_base", "worker_timeout"} |->
        CASE k = "max_retries" -> IntValue(DefaultMaxRetries)
          [] k = "backoff_base" -> IntValue(2)
          [] k = "worker_timeout" -> IntValue(300)]

\* the Config objects of the run: the first one and a later one on the same
\* config file
ConfigInstances == {"config", "new_config"}
\* the keys the callers set and get: a default key and a key that is not one
ConfigKeys == {"max_retries", "custom_key"}
\* the values the callers set
ConfigValues == {IntValue(5), StrValue("custom_value")}

\* ------------------------------------------------------------------ universe
Workers == 1..NumWorkers
JobIds == 1..MaxJobs
Commands == {"echo ok", "false"}
\* the command argument of a direct QueueManager.enqueue call: any str
EnqueueCommands == {"", "echo ok"}
\* the job_id argument of enqueue: None, or an id
JobIdArgs == {NULL} \cup {Some(i) : i \in JobIds}
\* what the caller of update_job did to the Job object it read: the three
\* resolutions of _process_next_job
Resolutions == {"success", "failure", "error"}
\* the max_retries argument of enqueue: None, or an integer (not validated)
MaxRetriesArgs == {NULL} \cup {Some(n) : n \in (0 - 1)..MaxRetriesArg}

\* what subprocess.run can do with a command under worker_timeout: return
\* with exit status 0 or non-zero, raise TimeoutExpired, or raise another
\* exception because the shell cannot be started; `false` never exits with 0
RunnerOutcomes(command) ==
    IF command = "false"
    THEN {"exit1", "timeout", "oserror"}
    ELSE {"exit0", "exit1", "timeout", "oserror"}

VARIABLES
    jobs,        \* the jobs table: id -> row
    now,         \* datetime.utcnow()
    pc,          \* worker -> position in Worker.start / _process_next_job
    running,     \* worker -> Worker.running
    wjob,        \* worker -> the Job object `job` of _process_next_job
    woutcome,    \* worker -> what subprocess.run did in _execute_job
    cli,         \* the client inside QueueManager.retry_dlq_job
    fails,       \* history: job -> failed executions since enqueue / DLQ retry
    claimWins,   \* history: job -> lock_job calls that returned True since
                 \*          the job's lock was last cleared
    last,        \* the last call of the sequential client: method, id
                 \* argument, whether it returned, the exception it raised
    conf         \* the config file and the _config dict of each Config
                 \* instance; history: the (instance, key) pairs of the set() calls

vars == <<jobs, now, pc, running, wjob, woutcome, cli, fails,
          claimWins, last, conf>>

\* ------------------------------------------------------------------ database.py
\* Database._row_to_job: columns 0..6 only; locked_at / locked_by are dropped
row_to_job(id, row) ==
    Job(id, row.command, row.state, row.attempts, row.max_retries,
        row.created_at, row.updated_at)

\* mutant: opening the store creates the table anew
init_db_recreate(tbl) == <<>>

\* Database.__init__ / _init_db: CREATE TABLE IF NOT EXISTS jobs, the rows of
\* an existing database file stay
init_db(tbl) == tbl

\* the row that INSERT writes for a Job object: the lock columns are NULL
job_to_row(job) ==
    [command |-> job.command, state |-> job.state, attempts |-> job.attempts,
     max_retries |-> job.max_retries, created_at |-> job.created_at,
     updated_at |-> job.updated_at, locked_at |-> NULL, locked_by |-> NULL]

\* Database.add_job raises sqlite3.IntegrityError: id is the PRIMARY KEY
add_job_raises(tbl, job) == job.id \in DOMAIN tbl

\* mutant: INSERT OR REPLACE, the new row takes the place of the old one
add_job_replace(tbl, job) ==
    [j \in DOMAIN tbl \cup {job.id} |->
        IF j = job.id THEN job_to_row(job) ELSE tbl[j]]

\* Database.add_job: INSERT INTO jobs; on a duplicate id the statement fails
\* and `with conn` rolls back, the table is as before
add_job(tbl, job) ==
    IF add_job_raises(tbl, job) THEN tbl ELSE tbl @@ (job.id :> job_to_row(job))

\* mutant: update_job writes created_at as well
update_job_sets_created_at(tbl, job) ==
    IF job.id \in DOMAIN tbl
    THEN [tbl EXCEPT ![job.id] =
            [@ EXCEPT !.command = job.command, !.state = job.state,
                      !.attempts = job.attempts,
                      !.max_retries = job.max_retries,
                      !.created_at = job.created_at,
                      !.updated_at = job.updated_at,
                      !.locked_at = NULL, !.locked_by = NULL]]
    ELSE tbl

\* mutant: update_job leaves the lock columns to a later unlock_job
update_job_keeps_lock(tbl, job) ==
    IF job.id \in DOMAIN tbl
    THEN [tbl EXCEPT ![job.id] =
            [@ EXCEPT !.command = job.command, !.state = job.state,
                      !.attempts = job.attempts,
                      !.max_retries = job.max_retries,
                      !.updated_at = job.updated_at]]
    ELSE tbl

\* Database.update_job: UPDATE ... SET command, state, attempts, max_retries,
\* updated_at, locked_at = NULL, locked_by = NULL WHERE id = ?
update_job(tbl, job) ==
    IF job.id \in DOMAIN tbl
    THEN [tbl EXCEPT ![job.id] =
            [@ EXCEPT !.command = job.command, !.state = job.state,
                      !.attempts = job.attempts,
                      !.max_retries = job.max_retries,
                      !.updated_at = job.updated_at,
                      !.locked_at = NULL, !.locked_by = NULL]]
    ELSE tbl

\* Database.get_job
get_job(tbl, id) ==
    IF id \in DOMAIN tbl THEN Some(row_to_job(id, tbl[id])) ELSE NULL

\* all orderings of the ids in S by created_at ascending (ties in any order)
OrderedAsc(tbl, S) ==
    {s \in [1..Cardinality(S) -> S] :
        /\ \A i, k \in 1..Cardinality(S) : i # k => s[i] # s[k]
        /\ \A i, k \in 1..Cardinality(S) :
              i < k => tbl[s[i]].created_at <= tbl[s[k]].created_at}

\* all orderings of the ids in S by created_at descending (ties in any order)
OrderedDesc(tbl, S) ==
    {s \in [1..Cardinality(S) -> S] :
        /\ \A i, k \in 1..Cardinality(S) : i # k => s[i] # s[k]
        /\ \A i, k \in 1..Cardinality(S) :
              i < k => tbl[s[i]].created_at >= tbl[s[k]].created_at}

\* mutant: get_pending_jobs with ORDER BY created_at DESC
get_pending_jobs_desc(tbl) ==
    OrderedDesc(tbl, {j \in DOMAIN tbl :
                         tbl[j].state = PENDING /\ tbl[j].locked_at = NULL})

\* Database.get_pending_jobs: WHERE state = 'pending' AND locked_at IS NULL
\* ORDER BY created_at ASC; the possible result lists (of ids)
get_pending_jobs(tbl) ==
    OrderedAsc(tbl, {j \in DOMAIN tbl :
                        tbl[j].state = PENDING /\ tbl[j].locked_at = NULL})

\* Database.get_jobs_by_state: WHERE state = ? ORDER BY created_at ASC; the
\* possible result lists (of ids)
get_jobs_by_state(tbl, state) ==
    OrderedAsc(tbl, {j \in DOMAIN tbl : tbl[j].state = state})

\* mutant: get_all_jobs orders like the filtered queries
get_all_jobs_asc(tbl) == OrderedAsc(tbl, DOMAIN tbl)

\* Database.get_all_jobs: ORDER BY created_at DESC
get_all_jobs(tbl) == OrderedDesc(tbl, DOMAIN tbl)

\* mutant: the SELECT of lock_job has no locked_at condition: any row is a lock
lock_job_is_locked_any_row(tbl, id) == id \in DOMAIN tbl

\* Database.lock_job, first statement: SELECT locked_by FROM jobs
\* WHERE id = ? AND locked_at IS NOT NULL; TRUE when a row comes back
lock_job_is_locked(tbl, id) ==
    id \in DOMAIN tbl /\ tbl[id].locked_at # NULL

\* mutant: the UPDATE of lock_job without its WHERE id = ?
lock_job_update_every_row(tbl, id, worker_id, t) ==
    [k \in DOMAIN tbl |->
        [tbl[k] EXCEPT !.state = PROCESSING, !.locked_at = Some(t),
                       !.locked_by = Some(worker_id), !.updated_at = t]]

\* Database.lock_job, second statement: UPDATE jobs SET state = 'processing',
\* locked_at, locked_by, updated_at WHERE id = ?
lock_job_update(tbl, id, worker_id, t) ==
    IF id \in DOMAIN tbl
    THEN [tbl EXCEPT ![id] =
            [@ EXCEPT !.state = PROCESSING, !.locked_at = Some(t),
                      !.locked_by = Some(worker_id), !.updated_at = t]]
    ELSE tbl

\* mutant: unlock_job clears locked_at only
unlock_job_keeps_locked_by(tbl, id, t) ==
    IF id \in DOMAIN tbl
    THEN [tbl EXCEPT ![id] = [@ EXCEPT !.locked_at = NULL, !.updated_at = t]]
    ELSE tbl

\* mutant: unlock_job also puts the job back to Pending
unlock_job_resets_state(tbl, id, t) ==
    IF id \in DOMAIN tbl
    THEN [tbl EXCEPT ![id] =
            [@ EXCEPT !.state = PENDING, !.locked_at = NULL,
                      !.locked_by = NULL, !.updated_at = t]]
    ELSE tbl

\* Database.unlock_job
unlock_job(tbl, id, t) ==
    IF id \in DOMAIN tbl
    THEN [tbl EXCEPT ![id] =
            [@ EXCEPT !.locked_at = NULL, !.locked_by = NULL,
                      !.updated_at = t]]
    ELSE tbl

\* mutant: the SELECT of lock_job looks for a lock of the calling worker only
lock_job_foreign_lock(tbl, id, worker_id, t) ==
    IF id \in DOMAIN tbl /\ tbl[id].locked_by = Some(worker_id)
    THEN tbl
    ELSE lock_job_update(tbl, id, worker_id, t)

\* Database.lock_job called with nothing in between its two statements: the
\* table it leaves
lock_job(tbl, id, worker_id, t) ==
    IF lock_job_is_locked(tbl, id)
    THEN tbl
    ELSE lock_job_update(tbl, id, worker_id, t)

\* mutant: lock_job returns True whenever the job exists
lock_job_returns_exists(tbl, id) == id \in DOMAIN tbl

\* Database.lock_job, its return value: False after the SELECT found a lock,
\* else cursor.rowcount > 0 of the UPDATE
lock_job_returns(tbl, id) ==
    IF lock_job_is_locked(tbl, id) THEN FALSE ELSE id \in DOMAIN tbl

\* SELECT state, COUNT(*) FROM jobs GROUP BY state: one entry per state that
\* occurs in the table
count_by_state(tbl) ==
    [s \in {tbl[j].state : j \in DOMAIN tbl} |->
        Cardinality({j \in DOMAIN tbl : tbl[j].state = s})]

\* dict.get(key, default)
dict_get(d, key, default) == IF key \in DOMAIN d THEN d[key] ELSE default

\* mutant: get_stats without the setdefault loop
get_stats_grouped(tbl) == count_by_state(tbl)

\* Database.get_stats: the GROUP BY counts, then setdefault(state.value, 0)
\* for every JobState
get_stats(tbl) ==
    [s \in DOMAIN count_by_state(tbl) \cup JobState |->
        dict_get(count_by_state(tbl), s, 0)]

\* ------------------------------------------------------------------ worker.py
\* mutant: the TimeoutExpired handler reports success
execute_job_timeout_true(outcome) == outcome \in {"exit0", "timeout"}

\* mutant: the generic exception handler reports success
execute_job_error_true(outcome) == outcome \in {"exit0", "oserror"}

\* mutant: _execute_job has no handler for exceptions other than
\* TimeoutExpired
execute_job_raises_oserror(outcome) == outcome = "oserror"

\* Worker._execute_job, the exception it lets out: none, `except
\* subprocess.TimeoutExpired` and `except Exception` catch what
\* subprocess.run raises
execute_job_raises(outcome) == FALSE

\* Worker._execute_job: True iff the command returned exit status 0;
\* TimeoutExpired and every other exception are caught and give False
execute_job(outcome) == outcome = "exit0"

\* mutant: the job goes to the DLQ one failure late (> for >=)
resolve_job_late_dead(job, success, t) ==
    IF success
    THEN [job EXCEPT !.state = COMPLETED, !.updated_at = t]
    ELSE [job EXCEPT !.attempts = job.attempts + 1,
                     !.state = IF job.attempts + 1 > job.max_retries
                               THEN DEAD ELSE PENDING,
                     !.updated_at = t]

\* mutant: a failed job is parked as Failed until a delay has passed
resolve_job_parks_failed(job, success, t) ==
    IF success
    THEN [job EXCEPT !.state = COMPLETED, !.updated_at = t]
    ELSE [job EXCEPT !.attempts = job.attempts + 1,
                     !.state = IF job.attempts + 1 >= job.max_retries
                               THEN DEAD ELSE FAILED,
                     !.updated_at = t]

\* Worker._process_next_job, the body of the try block up to update_job:
\* the Job object as it is handed to update_job
resolve_job(job, success, t) ==
    IF success
    THEN [job EXCEPT !.state = COMPLETED, !.updated_at = t]
    ELSE [job EXCEPT !.attempts = job.attempts + 1,
                     !.state = IF job.attempts + 1 >= job.max_retries
                               THEN DEAD ELSE PENDING,
                     !.updated_at = t]

\* ------------------------------------------------------------------ queue.py
\* mutant: the max_retries argument is ignored
enqueue_max_retries_default(arg) == DefaultMaxRetries

\* QueueManager.enqueue: max_retries = max_retries or config default
enqueue_max_retries(arg) ==
    IF arg = NULL \/ arg = Some(0) THEN DefaultMaxRetries ELSE arg[1]

\* QueueManager.enqueue: the Job object it builds and hands to add_job;
\* job_id = job_id or a generated id, which is new to the table
enqueue_job(tbl, command, job_id, max_retries, t) ==
    Job(IF job_id = NULL THEN Cardinality(DOMAIN tbl) + 1 ELSE job_id[1],
        command, PENDING, 0, enqueue_max_retries(max_retries), t, t)

\* mutant: retry_dlq_job takes a Failed job as well as a Dead one
retry_dlq_job_raises_failed_ok(tbl, id) ==
    IF get_job(tbl, id) = NULL THEN "not found"
    ELSE IF get_job(tbl, id)[1].state \notin {DEAD, FAILED} THEN "not in DLQ"
    ELSE ""

\* QueueManager.retry_dlq_job, the ValueError it raises ("" when it returns):
\* `Job {id} not found`, `Job {id} is not in DLQ`
retry_dlq_job_raises(tbl, id) ==
    IF get_job(tbl, id) = NULL THEN "not found"
    ELSE IF get_job(tbl, id)[1].state # DEAD THEN "not in DLQ"
    ELSE ""

\* mutant: the retried job keeps its attempts
retry_dlq_job_keeps_attempts(tbl, id, t) ==
    IF retry_dlq_job_raises(tbl, id) # ""
    THEN tbl
    ELSE update_job(tbl, [get_job(tbl, id)[1] EXCEPT !.state = PENDING,
                                                     !.updated_at = t])

\* QueueManager.retry_dlq_job called with nothing in between get_job and
\* update_job: the table it leaves
retry_dlq_job(tbl, id, t) ==
    IF retry_dlq_job_raises(tbl, id) # ""
    THEN tbl
    ELSE update_job(tbl, [get_job(tbl, id)[1] EXCEPT !.state = PENDING,
                                                     !.attempts = 0,
                                                     !.updated_at = t])

\* QueueManager.list_jobs(state): `if state` picks get_jobs_by_state, else
\* get_all_jobs
list_jobs(tbl, state) ==
    IF state # NULL THEN get_jobs_by_state(tbl, state[1]) ELSE get_all_jobs(tbl)

\* QueueManager.get_dlq_jobs
get_dlq_jobs(tbl) == get_jobs_by_state(tbl, DEAD)

\* sum(d.values())
RECURSIVE sum_values(_)
sum_values(d) ==
    IF DOMAIN d = {} THEN 0
    ELSE LET k == CHOOSE x \in DOMAIN d : TRUE
         IN d[k] + sum_values([x \in DOMAIN d \ {k} |-> d[x]])

\* mutant: total counts the states that occur, not the jobs
queue_get_stats_len(tbl) ==
    [total |-> Cardinality(DOMAIN count_by_state(tbl)),
     pending |-> dict_get(get_stats(tbl), PENDING, 0),
     processing |-> dict_get(get_stats(tbl), PROCESSING, 0),
     completed |-> dict_get(get_stats(tbl), COMPLETED, 0),
     failed |-> dict_get(get_stats(tbl), FAILED, 0),
     dead |-> dict_get(get_stats(tbl), DEAD, 0)]

\* QueueManager.get_stats
queue_get_stats(tbl) ==
    [total |-> sum_values(get_stats(tbl)),
     pending |-> dict_get(get_stats(tbl), PENDING, 0),
     processing |-> dict_get(get_stats(tbl), PROCESSING, 0),
     completed |-> dict_get(get_stats(tbl), COMPLETED, 0),
     failed |-> dict_get(get_stats(tbl), FAILED, 0),
     dead |-> dict_get(get_stats(tbl), DEAD, 0)]

\* ------------------------------------------------------------------ client
\* a call of the sequential client: the method, its id argument (0 when it
\* has none), what it returned (TRUE for a method that returns no boolean)
\* and the exception it raised ("" when it returned)
Call(op, id, ret, raised) ==
    [op |-> op, id |-> id, ret |-> ret, raised |-> raised]

NoCall == Call("none", 0, TRUE, "")

\* json.dump(self._config, f): the JSON object text, member by member; an int
\* is written as a JSON number, a str as a JSON string
json_dump(d) ==
    [k \in DOMAIN d |->
        IF d[k][1] = "int" THEN <<"number", d[k][2]>>
        ELSE <<"string", d[k][2]>>]

\* json.load(f): a JSON number is read as an int, a JSON string as a str
json_load(text) ==
    [k \in DOMAIN text |->
        IF text[k][1] = "number" THEN IntValue(text[k][2])
        ELSE StrValue(text[k][2])]

\* mutant: Config._load_config never reads the file
load_config_defaults(file) == DEFAULTS

\* Config._load_config: the dict of the file when the file exists, else a
\* copy of DEFAULTS (a file written by _save_config always parses)
load_config(file) ==
    IF file # NULL THEN json_load(file[1]) ELSE DEFAULTS

\* Config.__init__: the instance i starts with _config = None
new_Config(c, i) == [c EXCEPT !.mem[i] = NULL]

\* Config._ensure_loaded of instance i
ensure_loaded(c, i) ==
    IF c.mem[i] = NULL
    THEN [c EXCEPT !.mem[i] = Some(load_config(c.file))]
    ELSE c

\* Config.get(key, default) of instance i: the value returned
config_get(c, i, key, default) ==
    dict_get(ensure_loaded(c, i).mem[i][1], key, default)

\* Config.set(key, value) of instance i: load, assign, write the whole dict
config_set(c, i, key, value) ==
    LET c1 == ensure_loaded(c, i)
        old == c1.mem[i][1]
        d == [k \in DOMAIN old \cup {key} |->
                 IF k = key THEN value ELSE old[k]]
    IN  [c1 EXCEPT !.mem[i] = Some(d), !.file = Some(json_dump(d)),
                   !.ever_set = @ \cup {<<i, key>>}]

\* Config.reset() of instance i: a copy of DEFAULTS, written to the file
config_reset(c, i) ==
    [c EXCEPT !.mem[i] = Some(DEFAULTS), !.file = Some(json_dump(DEFAULTS))]

\* ------------------------------------------------------------------ state
Init ==
    /\ jobs = <<>>
    /\ now = 0
    /\ pc = [w \in Workers |-> "new"]
    /\ running = [w \in Workers |-> FALSE]
    /\ wjob = [w \in Workers |-> NoJob]
    /\ woutcome = [w \in Workers |-> "none"]
    /\ cli = [pc |-> "idle", job |-> NoJob]
    /\ fails = [j \in JobIds |-> 0]
    /\ claimWins = [j \in JobIds |-> 0]
    /\ last = NoCall
    /\ conf = [file |-> NULL, mem |-> [i \in ConfigInstances |-> NULL],
               ever_set |-> {}]

\* the job_id of enqueue when it is new to the table (a generated uuid, or a
\* caller-supplied new id): ids are handed out in order
new_job_id(tbl) == Cardinality(DOMAIN tbl) + 1

\* QueueManager.enqueue(command, job_id, max_retries) with a job_id that is
\* not in the table
Enqueue(id, command, arg) ==
    /\ id = new_job_id(jobs)
    /\ jobs' = add_job(jobs, Job(id, command, PENDING, 0,
                                 enqueue_max_retries(arg), now, now))
    /\ fails' = [fails EXCEPT ![id] = 0]
    /\ claimWins' = [claimWins EXCEPT ![id] = 0]
    /\ UNCHANGED <<conf, last, now, pc, running, wjob, woutcome, cli>>

\* QueueManager.retry_dlq_job up to the state check: get_job and the two
\* `raise ValueError` exits, which leave everything as it was
RetryRead(id) ==
    /\ cli.pc = "idle"
    /\ LET got == get_job(jobs, id) IN
       IF got # NULL /\ got[1].state = DEAD
       THEN cli' = [pc |-> "retry_write", job |-> got[1]]
       ELSE UNCHANGED cli
    /\ UNCHANGED <<conf, last, jobs, now, pc, running, wjob, woutcome, fails, claimWins>>

\* QueueManager.retry_dlq_job: reset the Job object and update_job
RetryWrite ==
    /\ cli.pc = "retry_write"
    /\ jobs' = update_job(jobs, [cli.job EXCEPT !.state = PENDING,
                                                !.attempts = 0,
                                                !.updated_at = now])
    /\ cli' = [pc |-> "idle", job |-> NoJob]
    /\ fails' = [fails EXCEPT ![cli.job.id] = 0]
    /\ claimWins' = [claimWins EXCEPT ![cli.job.id] = 0]
    /\ UNCHANGED <<conf, last, now, pc, running, wjob, woutcome>>

\* Worker.__init__ (get_db() opens the store) and Worker.start: running =
\* True, enter the loop
Start(w) ==
    /\ pc[w] \in {"new", "stopped"}
    /\ jobs' = init_db(jobs)
    /\ running' = [running EXCEPT ![w] = TRUE]
    /\ pc' = [pc EXCEPT ![w] = "loop"]
    /\ UNCHANGED <<conf, last, now, wjob, woutcome, cli, fails, claimWins>>

\* `while self.running` found True; _process_next_job: get_pending_jobs,
\* return when it is empty, else job = pending_jobs[0]
Poll(w) ==
    /\ pc[w] = "loop"
    /\ running[w]
    /\ \E lst \in get_pending_jobs(jobs) :
          IF lst = <<>>
          THEN UNCHANGED <<pc, wjob>>
          ELSE /\ wjob' = [wjob EXCEPT ![w] = row_to_job(lst[1], jobs[lst[1]])]
               /\ pc' = [pc EXCEPT ![w] = "lock_job"]
    /\ UNCHANGED <<conf, last, jobs, now, running, woutcome, cli, fails,
                   claimWins>>

\* mutant: the worker goes on to run the job when lock_job returned False
LockCheck_ignores_result(w) ==
    /\ pc[w] = "lock_job"
    /\ IF lock_job_is_locked(jobs, wjob[w].id)
       THEN /\ pc' = [pc EXCEPT ![w] = "execute"]
            /\ UNCHANGED wjob
       ELSE /\ pc' = [pc EXCEPT ![w] = "lock_update"]
            /\ UNCHANGED wjob
    /\ UNCHANGED <<conf, last, jobs, now, running, woutcome, cli, fails,
                   claimWins>>

\* lock_job, the SELECT: return False when the job is locked
LockCheck(w) ==
    /\ pc[w] = "lock_job"
    /\ IF lock_job_is_locked(jobs, wjob[w].id)
       THEN /\ pc' = [pc EXCEPT ![w] = "loop"]
            /\ wjob' = [wjob EXCEPT ![w] = NoJob]
       ELSE /\ pc' = [pc EXCEPT ![w] = "lock_update"]
            /\ UNCHANGED wjob
    /\ UNCHANGED <<conf, last, jobs, now, running, woutcome, cli, fails,
                   claimWins>>

\* lock_job, the UPDATE and commit: return rowcount > 0
LockUpdate(w) ==
    /\ pc[w] = "lock_update"
    /\ jobs' = lock_job_update(jobs, wjob[w].id, w, now)
    /\ IF wjob[w].id \in DOMAIN jobs
       THEN /\ pc' = [pc EXCEPT ![w] = "execute"]
            /\ claimWins' = [claimWins EXCEPT ![wjob[w].id] = @ + 1]
            /\ UNCHANGED wjob
       ELSE /\ pc' = [pc EXCEPT ![w] = "loop"]
            /\ wjob' = [wjob EXCEPT ![w] = NoJob]
            /\ UNCHANGED claimWins
    /\ UNCHANGED <<conf, last, now, running, woutcome, cli, fails>>

\* _execute_job: subprocess.run on job.command
Execute(w) ==
    /\ pc[w] = "execute"
    /\ \E o \in RunnerOutcomes(wjob[w].command) :
          /\ woutcome' = [woutcome EXCEPT ![w] = o]
          /\ fails' = [fails EXCEPT ![wjob[w].id] =
                          IF execute_job(o) THEN @ ELSE @ + 1]
          /\ pc' = [pc EXCEPT ![w] = IF execute_job_raises(o)
                                     THEN "except" ELSE "resolve"]
    /\ UNCHANGED <<conf, last, jobs, now, running, wjob, cli, claimWins>>

\* the rest of the try block: set state / attempts / updated_at, update_job
Resolve(w) ==
    /\ pc[w] = "resolve"
    /\ jobs' = update_job(jobs, resolve_job(wjob[w], execute_job(woutcome[w]),
                                            now))
    /\ pc' = [pc EXCEPT ![w] = "loop"]
    /\ wjob' = [wjob EXCEPT ![w] = NoJob]
    /\ woutcome' = [woutcome EXCEPT ![w] = "none"]
    /\ claimWins' = [claimWins EXCEPT ![wjob[w].id] = 0]
    /\ UNCHANGED <<conf, last, now, running, cli, fails>>

\* Worker.stop, or the signal handler: running = False
Stop(w) ==
    /\ running[w]
    /\ running' = [running EXCEPT ![w] = FALSE]
    /\ UNCHANGED <<conf, last, jobs, now, pc, wjob, woutcome, cli, fails, claimWins>>

\* mutant: the stop request interrupts the tick in progress
Exit_interrupts(w) ==
    /\ pc[w] \notin {"new", "stopped"}
    /\ ~running[w]
    /\ pc' = [pc EXCEPT ![w] = "stopped"]
    /\ UNCHANGED <<conf, last, jobs, now, running, wjob, woutcome, cli, fails,
                   claimWins>>

\* `while self.running` found False: the loop ends, start() returns
Exit(w) ==
    /\ pc[w] = "loop"
    /\ ~running[w]
    /\ pc' = [pc EXCEPT ![w] = "stopped"]
    /\ UNCHANGED <<conf, last, jobs, now, running, wjob, woutcome, cli, fails,
                   claimWins>>

\* update_job raises in the try block (a sqlite3 error): nothing is written
\* and control goes to `except Exception` with the Job object already changed
ResolveRaise(w) ==
    /\ pc[w] = "resolve"
    /\ wjob' = [wjob EXCEPT ![w] =
                  resolve_job(wjob[w], execute_job(woutcome[w]), now)]
    /\ pc' = [pc EXCEPT ![w] = "except"]
    /\ UNCHANGED <<conf, last, jobs, now, running, woutcome, cli, fails, claimWins>>

\* except Exception: logger.error, job.state = FAILED, update_job
ExceptUpdate(w) ==
    /\ pc[w] = "except"
    /\ jobs' = update_job(jobs, [wjob[w] EXCEPT !.state = FAILED,
                                                !.updated_at = now])
    /\ pc' = [pc EXCEPT ![w] = "unlock_job"]
    /\ claimWins' = [claimWins EXCEPT ![wjob[w].id] = 0]
    /\ UNCHANGED <<conf, last, now, running, wjob, woutcome, cli, fails>>

\* except Exception: unlock_job, end of the tick
ExceptUnlock(w) ==
    /\ pc[w] = "unlock_job"
    /\ jobs' = unlock_job(jobs, wjob[w].id, now)
    /\ pc' = [pc EXCEPT ![w] = "loop"]
    /\ wjob' = [wjob EXCEPT ![w] = NoJob]
    /\ woutcome' = [woutcome EXCEPT ![w] = "none"]
    /\ claimWins' = [claimWins EXCEPT ![wjob[w].id] = 0]
    /\ UNCHANGED <<conf, last, now, running, cli, fails>>

\* update_job or unlock_job raises inside the except block: the exception
\* leaves _process_next_job and start(), whose loop catches only
\* KeyboardInterrupt; running stays True
ExceptRaise(w) ==
    /\ pc[w] \in {"except", "unlock_job"}
    /\ pc' = [pc EXCEPT ![w] = "crashed"]
    /\ UNCHANGED <<conf, last, jobs, now, running, wjob, woutcome, cli, fails,
                   claimWins>>

\* the worker's process is killed (SIGKILL, power loss) after lock_job
\* returned True and before update_job: it takes no further step and its Job
\* object is lost with it; the store is as the worker left it
Crash(w) ==
    /\ pc[w] \in {"execute", "resolve"}
    /\ pc' = [pc EXCEPT ![w] = "crashed"]
    /\ UNCHANGED <<conf, last, jobs, now, running, wjob, woutcome, cli, fails,
                   claimWins>>

\* WorkerManager.start_workers(count), the loop body for its w-th worker:
\* Worker(), append, worker.start().  start() returns only when the worker's
\* loop has ended, so the body for worker w runs after start() of every
\* earlier worker has returned (or raised).
start_workers(w) ==
    /\ pc[w] = "new"
    /\ \A v \in Workers : v < w => pc[v] \in {"stopped", "crashed"}
    /\ Start(w)

\* ------------------------------------------------------------------ sequential client
\* datetime.utcnow() moves on
Tick ==
    /\ now < MaxClock
    /\ now' = now + 1
    /\ UNCHANGED <<conf, jobs, pc, running, wjob, woutcome, cli, fails, claimWins,
                   last>>

\* QueueManager.enqueue(command, job_id, max_retries), whole: build the Job,
\* add_job; an IntegrityError of add_job propagates.  Ids are used in order.
CallEnqueue(command, job_id, arg) ==
    LET job == enqueue_job(jobs, command, job_id, arg, now) IN
    /\ job.id \in JobIds
    /\ job.id <= new_job_id(jobs)
    /\ jobs' = add_job(jobs, job)
    /\ last' = IF add_job_raises(jobs, job)
               THEN Call("enqueue", job.id, FALSE, "IntegrityError")
               ELSE Call("enqueue", job.id, TRUE, "")
    /\ UNCHANGED <<conf, now, pc, running, wjob, woutcome, cli, fails, claimWins>>

\* QueueManager.get_job(job_id): returns the Job or None
CallGetJob(id) ==
    /\ last' = Call("get_job", id, get_job(jobs, id) # NULL, "")
    /\ UNCHANGED <<conf, jobs, now, pc, running, wjob, woutcome, cli, fails,
                   claimWins>>

\* Database.lock_job(job_id, worker_id), whole
CallLockJob(id, w) ==
    /\ jobs' = lock_job(jobs, id, w, now)
    /\ last' = Call("lock_job", id, lock_job_returns(jobs, id), "")
    /\ UNCHANGED <<conf, now, pc, running, wjob, woutcome, cli, fails, claimWins>>

\* Database.unlock_job(job_id)
CallUnlockJob(id) ==
    /\ jobs' = unlock_job(jobs, id, now)
    /\ last' = Call("unlock_job", id, TRUE, "")
    /\ UNCHANGED <<conf, now, pc, running, wjob, woutcome, cli, fails, claimWins>>

\* get_job, then one of the resolutions of _process_next_job on the Job
\* object, then Database.update_job(job)
CallUpdateJob(id, how) ==
    /\ get_job(jobs, id) # NULL
    /\ LET job == get_job(jobs, id)[1] IN
       /\ how = "failure" => job.attempts <= MaxRetriesArg
       /\ jobs' = update_job(jobs,
             CASE how = "success" -> resolve_job(job, TRUE, now)
               [] how = "failure" -> resolve_job(job, FALSE, now)
               [] how = "error" -> [job EXCEPT !.state = FAILED,
                                               !.updated_at = now])
    /\ last' = Call("update_job", id, TRUE, "")
    /\ UNCHANGED <<conf, now, pc, running, wjob, woutcome, cli, fails, claimWins>>

\* QueueManager.retry_dlq_job(job_id), whole
CallRetryDlqJob(id) ==
    /\ jobs' = retry_dlq_job(jobs, id, now)
    /\ last' = Call("retry_dlq_job", id, retry_dlq_job_raises(jobs, id) = "",
                    retry_dlq_job_raises(jobs, id))
    /\ UNCHANGED <<conf, now, pc, running, wjob, woutcome, cli, fails, claimWins>>

\* QueueManager.get_stats()
CallGetStats ==
    /\ last' = Call("get_stats", queue_get_stats(jobs).total, TRUE, "")
    /\ UNCHANGED <<conf, jobs, now, pc, running, wjob, woutcome, cli, fails,
                   claimWins>>

\* QueueManager.list_jobs(state) with state None or the name of a JobState
CallListJobs(state) ==
    /\ last' = Call("list_jobs", Cardinality(DOMAIN jobs),
                    list_jobs(jobs, state) # {}, "")
    /\ UNCHANGED <<conf, jobs, now, pc, running, wjob, woutcome, cli, fails,
                   claimWins>>

\* Config(): the instance i is created (again) on the same config file
ConfigNew(i) ==
    /\ conf' = new_Config(conf, i)
    /\ last' = Call("Config", 0, TRUE, "")
    /\ UNCHANGED <<jobs, now, pc, running, wjob, woutcome, cli, fails,
                   claimWins>>

\* Config.get(key) of instance i; the call record says whether a value other
\* than None came back
ConfigGet(i, key) ==
    /\ conf' = ensure_loaded(conf, i)
    /\ last' = Call("Config.get", 0, config_get(conf, i, key, None) # None, "")
    /\ UNCHANGED <<jobs, now, pc, running, wjob, woutcome, cli, fails,
                   claimWins>>

\* Config.set(key, value) of instance i
ConfigSet(i, key, value) ==
    /\ conf' = config_set(conf, i, key, value)
    /\ last' = Call("Config.set", 0, TRUE, "")
    /\ UNCHANGED <<jobs, now, pc, running, wjob, woutcome, cli, fails,
                   claimWins>>

\* Config.reset() of instance i
ConfigReset(i) ==
    /\ conf' = config_reset(conf, i)
    /\ last' = Call("Config.reset", 0, TRUE, "")
    /\ UNCHANGED <<jobs, now, pc, running, wjob, woutcome, cli, fails,
                   claimWins>>

\* ------------------------------------------------------------------ specifications
\* NumWorkers workers poll a store that holds one job, with retry_dlq_job
\* calls in between.  The clock stands still: the poll loop reads timestamps
\* only through ORDER BY created_at, and equal timestamps leave every order
\* of the pending jobs possible.
Next ==
    \/ \E c \in Commands, a \in MaxRetriesArgs : Enqueue(1, c, a)
    \/ \E id \in JobIds : RetryRead(id)
    \/ RetryWrite
    \/ \E w \in Workers : Start(w)
    \/ \E w \in Workers : Poll(w)
    \/ \E w \in Workers : LockCheck(w)
    \/ \E w \in Workers : LockUpdate(w)
    \/ \E w \in Workers : Execute(w)
    \/ \E w \in Workers : Resolve(w)

Spec == Init /\ [][Next]_vars

\* A single worker (the others are never started) polls a store of up to
\* MaxJobs jobs.
NextQueue ==
    \/ \E id \in JobIds, c \in Commands, a \in MaxRetriesArgs : Enqueue(id, c, a)
    \/ \E id \in JobIds : RetryRead(id)
    \/ RetryWrite
    \/ Start(1)
    \/ Poll(1)
    \/ LockCheck(1)
    \/ LockUpdate(1)
    \/ Execute(1)
    \/ Resolve(1)

SpecQueue == Init /\ [][NextQueue]_vars

\* Worker 1 is started, stopped and started again (opening the store each
\* time) while it polls a store of up to MaxJobs jobs.  No store call fails.
NextLife ==
    \/ \E id \in JobIds, c \in Commands, a \in MaxRetriesArgs : Enqueue(id, c, a)
    \/ \E id \in JobIds : RetryRead(id)
    \/ RetryWrite
    \/ Start(1)
    \/ Poll(1)
    \/ LockCheck(1)
    \/ LockUpdate(1)
    \/ Execute(1)
    \/ Resolve(1)
    \/ Stop(1)
    \/ Exit(1)

SpecLife == Init /\ [][NextLife]_vars

\* the steps of worker w's thread
WorkerStep(w) ==
    Poll(w) \/ LockCheck(w) \/ LockUpdate(w) \/ Execute(w) \/ Resolve(w)
        \/ Exit(w)

\* SpecLife with a worker thread that keeps running and commands that
\* terminate
SpecLifeFair == SpecLife /\ WF_vars(WorkerStep(1))

\* Worker 1 polls a store of up to MaxJobs jobs whose update_job and
\* unlock_job calls can fail in the resolution of a job.
NextFail ==
    \/ \E id \in JobIds, c \in Commands, a \in MaxRetriesArgs : Enqueue(id, c, a)
    \/ Start(1)
    \/ Poll(1)
    \/ LockCheck(1)
    \/ LockUpdate(1)
    \/ Execute(1)
    \/ Resolve(1)
    \/ ResolveRaise(1)
    \/ ExceptUpdate(1)
    \/ ExceptUnlock(1)
    \/ ExceptRaise(1)
    \/ Stop(1)
    \/ Exit(1)

SpecFail == Init /\ [][NextFail]_vars

\* One client calls the queue manager and the store, one call after the
\* other (as tests/test_queuectl.py and demo.py do), while the clock moves.
\* The store holds one job: every enqueue is for job id 1.
NextStore ==
    \/ Tick
    \/ \E c \in EnqueueCommands, a \in MaxRetriesArgs :
          CallEnqueue(c, Some(1), a)
    \/ CallGetJob(1)
    \/ \E w \in Workers : CallLockJob(1, w)
    \/ CallUnlockJob(1)
    \/ \E how \in Resolutions : CallUpdateJob(1, how)
    \/ CallRetryDlqJob(1)
    \/ CallGetStats

SpecStore == Init /\ [][NextStore]_vars

\* The same client on a store of up to MaxJobs jobs, all enqueued with the
\* same command and max_retries = 1 and claimed for worker 1; the clock
\* stands still.
NextStats ==
    \/ \E i \in JobIdArgs : CallEnqueue("echo ok", i, Some(1))
    \/ \E id \in JobIds : CallLockJob(id, 1)
    \/ \E id \in JobIds : CallUnlockJob(id)
    \/ \E id \in JobIds, how \in Resolutions : CallUpdateJob(id, how)
    \/ \E id \in JobIds : CallRetryDlqJob(id)
    \/ CallGetStats

SpecStats == Init /\ [][NextStats]_vars

\* The client enqueues jobs at different times, resolves them as succeeded
\* or failed, and lists them.
NextList ==
    \/ Tick
    \/ \E i \in JobIdArgs : CallEnqueue("echo ok", i, Some(1))
    \/ \E id \in JobIds, how \in {"failure", "success"} :
          CallUpdateJob(id, how)
    \/ \E st \in {NULL} \cup {Some(x) : x \in JobState} : CallListJobs(st)

SpecList == Init /\ [][NextList]_vars

\* Worker 1 polls a store of up to MaxJobs jobs that are enqueued at
\* different times; every command fails, so jobs come back to Pending.
NextFifo ==
    \/ Tick
    \/ \E id \in JobIds : Enqueue(id, "false", NULL)
    \/ Start(1)
    \/ Poll(1)
    \/ LockCheck(1)
    \/ LockUpdate(1)
    \/ Execute(1)
    \/ Resolve(1)

SpecFifo == Init /\ [][NextFifo]_vars

\* NumWorkers workers poll a store that holds one job whose command always
\* fails, so that it is claimed again and again.
NextTick ==
    \/ Enqueue(1, "false", NULL)
    \/ \E w \in Workers : Start(w)
    \/ \E w \in Workers : Poll(w)
    \/ \E w \in Workers : LockCheck(w)
    \/ \E w \in Workers : LockUpdate(w)
    \/ \E w \in Workers : Execute(w)
    \/ \E w \in Workers : Resolve(w)

SpecTick == Init /\ [][NextTick]_vars

\* NumWorkers workers poll a store that holds one job; a worker can be
\* killed while it holds the job.
NextCrash ==
    \/ \E c \in Commands : Enqueue(1, c, NULL)
    \/ \E w \in Workers : Start(w)
    \/ \E w \in Workers : Poll(w)
    \/ \E w \in Workers : LockCheck(w)
    \/ \E w \in Workers : LockUpdate(w)
    \/ \E w \in Workers : Execute(w)
    \/ \E w \in Workers : Resolve(w)
    \/ \E w \in Workers : Crash(w)

SpecCrash == Init /\ [][NextCrash]_vars

\* the workers that have been started
Started == {w \in Workers : pc[w] # "new"}

\* QueueManager.enqueue of the next job, while the started workers times the
\* jobs stay within MaxLoad
EnqueueWithinLoad(id) ==
    /\ Cardinality(Started) * (Cardinality(DOMAIN jobs) + 1) <= MaxLoad
    /\ Enqueue(id, "echo ok", Some(MaxRetriesArg))

\* Worker.start of the next worker (workers are started in the order of
\* their ids), while the started workers times the jobs stay within MaxLoad
StartWithinLoad(w) ==
    /\ pc[w] = "new"
    /\ \A v \in Workers : v < w => pc[v] # "new"
    /\ (Cardinality(Started) + 1) * Cardinality(DOMAIN jobs) <= MaxLoad
    /\ Start(w)

\* Up to NumWorkers workers poll a store of up to MaxJobs jobs while the
\* client retries Dead jobs; no worker is stopped or killed and no store
\* call fails.
NextProgress ==
    \/ \E id \in JobIds : EnqueueWithinLoad(id)
    \/ \E id \in JobIds : RetryRead(id)
    \/ RetryWrite
    \/ \E w \in Workers : StartWithinLoad(w)
    \/ \E w \in Workers : Poll(w)
    \/ \E w \in Workers : LockCheck(w)
    \/ \E w \in Workers : LockUpdate(w)
    \/ \E w \in Workers : Execute(w)
    \/ \E w \in Workers : Resolve(w)

\* every started worker's thread keeps running and every command terminates
SpecProgress ==
    Init /\ [][NextProgress]_vars /\ \A w \in Workers : WF_vars(WorkerStep(w))

\* The client enqueues up to MaxJobs jobs and claims and releases them for
\* any of the workers, while the clock moves.
NextClaims ==
    \/ Tick
    \/ \E i \in JobIdArgs : CallEnqueue("echo ok", i, NULL)
    \/ \E id \in JobIds, w \in Workers : CallLockJob(id, w)
    \/ \E id \in JobIds : CallUnlockJob(id)

SpecClaims == Init /\ [][NextClaims]_vars

\* WorkerManager.start_workers(NumWorkers) on a store of up to MaxJobs jobs;
\* a worker is stopped by a signal or by Worker.stop.
NextManager ==
    \/ \E id \in JobIds : Enqueue(id, "echo ok", Some(MaxRetriesArg))
    \/ \E w \in Workers : start_workers(w)
    \/ \E w \in Workers : Poll(w)
    \/ \E w \in Workers : LockCheck(w)
    \/ \E w \in Workers : LockUpdate(w)
    \/ \E w \in Workers : Execute(w)
    \/ \E w \in Workers : Resolve(w)
    \/ \E w \in Workers : Stop(w)
    \/ \E w \in Workers : Exit(w)

\* the manager's thread and every worker's loop keep running
SpecManager ==
    /\ Init /\ [][NextManager]_vars
    /\ \A w \in Workers : WF_vars(start_workers(w)) /\ WF_vars(WorkerStep(w))

\* Two Config instances on one config file: created, read, written and reset
\* in any order.
NextConfig ==
    \/ \E i \in ConfigInstances : ConfigNew(i)
    \/ \E i \in ConfigInstances, k \in ConfigKeys : ConfigGet(i, k)
    \/ \E i \in ConfigInstances, k \in ConfigKeys, v \in ConfigValues :
          ConfigSet(i, k, v)
    \/ \E i \in ConfigInstances : ConfigReset(i)

SpecConfig == Init /\ [][NextConfig]_vars

\* ------------------------------------------------------------------ properties
\* the workers whose lock_job on job j returned True and whose resolve write
\* has not been made yet
Holders(j) ==
    {w \in Workers : pc[w] \in {"execute", "resolve"} /\ wjob[w].id = j}

\* worker w makes its resolve write (update_job in the try block) in this step
Resolves(w) == pc[w] = "resolve" /\ pc'[w] = "loop"

\* the row of w's job after a failed execution has been resolved: attempts
\* one more than the worker read, Dead at max_retries and Pending below, lock
\* cleared
ResolvedAsFailure(w) ==
    LET j == wjob[w].id
        n == wjob[w].attempts + 1
    IN /\ jobs'[j].attempts = n
       /\ jobs'[j].state = (IF n >= wjob[w].max_retries THEN DEAD ELSE PENDING)
       /\ jobs'[j].locked_at = NULL
       /\ jobs'[j].locked_by = NULL

\* C1: between two releases of a job's lock at most one lock_job call on it
\* returns True, however the SELECT and the UPDATE of concurrent calls
\* interleave.
C1_ClaimExclusive ==
    \A j \in DOMAIN jobs : claimWins[j] <= 1

\* C2: at most one worker is between its successful claim of a job and its
\* resolve write for that job.
C2_AtMostOneWorkerPerJob ==
    \A j \in DOMAIN jobs : Cardinality(Holders(j)) <= 1

AllowedTransitions ==
    {<<PENDING, PROCESSING>>, <<PROCESSING, COMPLETED>>,
     <<PROCESSING, PENDING>>, <<PROCESSING, DEAD>>, <<PROCESSING, FAILED>>,
     <<DEAD, PENDING>>}

\* C3: every change of a job's stored state is Pending->Processing,
\* Processing->Completed/Pending/Dead/Failed or Dead->Pending.
C3_StateMachine ==
    [][\A j \in DOMAIN jobs :
          jobs'[j].state # jobs[j].state
             => <<jobs[j].state, jobs'[j].state>> \in AllowedTransitions]_vars

\* C4: with a single worker, a job with max_retries = M >= 1 whose every
\* execution fails is Pending with attempts = k after k < M failed
\* executions, and Dead with attempts = M after the M-th.
C4_RetryExhaustion ==
    \A j \in DOMAIN jobs :
        (jobs[j].command = "false" /\ jobs[j].max_retries >= 1
            /\ Holders(j) = {})
        => /\ jobs[j].attempts = fails[j]
           /\ fails[j] < jobs[j].max_retries => jobs[j].state = PENDING
           /\ fails[j] >= jobs[j].max_retries
                 => jobs[j].state = DEAD /\ fails[j] = jobs[j].max_retries

\* C4 witness: a job that always fails went through Pending after its first
\* failures and is Dead after the M-th, M >= 2
C4_Witness ==
    \E j \in DOMAIN jobs :
        /\ jobs[j].command = "false"
        /\ jobs[j].max_retries >= 2
        /\ jobs[j].state = DEAD
        /\ jobs[j].attempts = jobs[j].max_retries
        /\ fails[j] = jobs[j].max_retries

\* C5: every job in the store has attempts <= max_retries.
C5_AttemptsWithinMaxRetries ==
    \A j \in DOMAIN jobs : jobs[j].attempts <= jobs[j].max_retries

\* C6: the stored attempts of a job that no worker holds equals the number of
\* failed executions of the job since it was enqueued or last retried from
\* the DLQ.
C6_RetryAccounting ==
    \A j \in DOMAIN jobs :
        Holders(j) = {} => jobs[j].attempts = fails[j]

\* C7: a Completed job never changes state again.
C7_CompletedIsTerminal ==
    [][\A j \in DOMAIN jobs :
          jobs[j].state = COMPLETED => jobs'[j].state = COMPLETED]_vars

\* C8: the resolve write after a successful execution sets the job to
\* Completed, leaves the stored attempts as they were and clears the lock.
C8_SuccessResolvesToCompleted ==
    [][\A w \in Workers :
          (Resolves(w) /\ woutcome[w] = "exit0")
          => /\ jobs'[wjob[w].id].state = COMPLETED
             /\ jobs'[wjob[w].id].attempts = jobs[wjob[w].id].attempts
             /\ jobs'[wjob[w].id].locked_at = NULL
             /\ jobs'[wjob[w].id].locked_by = NULL]_vars

\* C9: the resolve write after a timeout is the one a non-zero exit gets:
\* attempts incremented, Pending below max_retries and Dead at it, never
\* Failed or any other state.
C9_TimeoutLikeNonZeroExit ==
    [][\A w \in Workers :
          (Resolves(w) /\ woutcome[w] = "timeout")
          => /\ ResolvedAsFailure(w)
             /\ jobs' = update_job(jobs, resolve_job(wjob[w],
                                          execute_job("exit1"), now))]_vars

\* C9 witness: a command has timed out and its job is about to be resolved,
\* here to Pending, by the worker that claimed it
C9_Witness ==
    \E w \in Workers :
        /\ pc[w] = "resolve"
        /\ woutcome[w] = "timeout"
        /\ wjob[w].attempts + 1 < wjob[w].max_retries
        /\ jobs[wjob[w].id].locked_by = Some(w)

\* C10 as stated: after a runner error the resolve write sets the job to
\* Failed with the lock released and attempts not incremented.
C10_RunnerErrorResolvesToFailed ==
    [][\A w \in Workers :
          (Resolves(w) /\ woutcome[w] = "oserror")
          => /\ jobs'[wjob[w].id].state = FAILED
             /\ jobs'[wjob[w].id].attempts = wjob[w].attempts
             /\ jobs'[wjob[w].id].locked_by = NULL]_vars

\* C10 amended: after a runner error the resolve write is that of a failed
\* command: attempts incremented, Pending below max_retries and Dead at it,
\* lock cleared; the job is not set to Failed.
C10_RunnerErrorIsRetryableFailure ==
    [][\A w \in Workers :
          (Resolves(w) /\ woutcome[w] = "oserror")
          => /\ ResolvedAsFailure(w)
             /\ jobs'[wjob[w].id].state # FAILED]_vars

\* C10 witness: the runner could not start the command and the job is about
\* to be resolved by the worker that claimed it
C10_Witness ==
    \E w \in Workers :
        /\ pc[w] = "resolve"
        /\ woutcome[w] = "oserror"
        /\ jobs[wjob[w].id].locked_by = Some(w)

\* ------------------------------------------------------------------ store calls
\* C11: enqueue with a non-empty command and max_retries >= 1 or omitted,
\* then get_job of the returned id: the job is Pending with attempts 0 and
\* no lock, and max_retries is the given value, or the configured default
\* when it was omitted.
C11_EnqueueThenGet ==
    \A c \in EnqueueCommands \ {""}, i \in JobIdArgs, a \in MaxRetriesArgs :
        LET job == enqueue_job(jobs, c, i, a, now)
            tbl == add_job(jobs, job)
            got == get_job(tbl, job.id)
        IN  (a = NULL \/ a[1] >= 1) /\ ~add_job_raises(jobs, job) =>
               /\ got # NULL
               /\ got[1].id = job.id
               /\ got[1].command = c
               /\ got[1].state = PENDING
               /\ got[1].attempts = 0
               /\ got[1].max_retries =
                      (IF a = NULL THEN DefaultMaxRetries ELSE a[1])
               /\ tbl[job.id].locked_at = NULL
               /\ tbl[job.id].locked_by = NULL

\* enqueue with max_retries = 1 returned, and get_job finds the job as it
\* was enqueued
C11_Witness ==
    /\ last.op = "get_job"
    /\ last.ret
    /\ get_job(jobs, last.id)[1].command = "echo ok"
    /\ get_job(jobs, last.id)[1].state = PENDING
    /\ get_job(jobs, last.id)[1].attempts = 0
    /\ get_job(jobs, last.id)[1].max_retries = 1
    /\ get_job(jobs, last.id)[1].updated_at =
          get_job(jobs, last.id)[1].created_at

\* C12: enqueue with an empty command fails and adds no job: no job in the
\* store has an empty command.
C12_EmptyCommandRejected ==
    \A j \in DOMAIN jobs : jobs[j].command # ""

\* C13: add_job of a Job whose id is in the store (directly, or through
\* enqueue with that id as job_id) raises and leaves the table, and with it
\* the existing record, as it was; the table keeps one row per id.
C13_DuplicateIdRejected ==
    \A c \in EnqueueCommands, a \in MaxRetriesArgs, st \in JobState :
        \A i \in DOMAIN jobs :
            LET job == [enqueue_job(jobs, c, Some(i), a, now)
                           EXCEPT !.state = st]
            IN  /\ add_job_raises(jobs, job)
                /\ add_job(jobs, job) = jobs
                /\ Cardinality(DOMAIN add_job(jobs, job)) =
                      Cardinality(DOMAIN jobs)

\* enqueue with the id of a Completed job has raised, the job is still
\* Completed
C13_Witness ==
    /\ last.op = "enqueue"
    /\ last.raised = "IntegrityError"
    /\ last.id \in DOMAIN jobs
    /\ jobs[last.id].state = COMPLETED
    /\ jobs[last.id].created_at < now

\* C14: retry_dlq_job on an id that is not in the store raises "not found",
\* on a job that is not Dead raises "not in DLQ"; in both cases the table
\* is left as it was (state, attempts, lock fields, updated_at of every job).
C14_RetryRejected ==
    \A id \in JobIds :
        /\ id \notin DOMAIN jobs =>
              /\ retry_dlq_job_raises(jobs, id) = "not found"
              /\ retry_dlq_job(jobs, id, now) = jobs
        /\ id \in DOMAIN jobs /\ jobs[id].state # DEAD =>
              /\ retry_dlq_job_raises(jobs, id) = "not in DLQ"
              /\ retry_dlq_job(jobs, id, now) = jobs

\* retry_dlq_job on a locked Processing job has raised, at a time later
\* than the job's updated_at
C14_Witness ==
    /\ last.op = "retry_dlq_job"
    /\ last.raised = "not in DLQ"
    /\ jobs[last.id].state = PROCESSING
    /\ jobs[last.id].locked_by # NULL
    /\ jobs[last.id].updated_at < now

\* retry_dlq_job on an id that is not in the store has raised
C14_WitnessNotFound ==
    /\ last.op = "retry_dlq_job"
    /\ last.raised = "not found"
    /\ last.id \notin DOMAIN jobs

\* C15: retry_dlq_job on a Dead job returns and leaves the job Pending with
\* attempts 0 and no lock; a second retry_dlq_job of the same id right
\* after it raises "not in DLQ" and leaves the table as it was.
C15_RetryDeadJob ==
    \A id \in DOMAIN jobs :
        jobs[id].state = DEAD =>
            LET tbl == retry_dlq_job(jobs, id, now) IN
            /\ retry_dlq_job_raises(jobs, id) = ""
            /\ tbl[id].state = PENDING
            /\ tbl[id].attempts = 0
            /\ tbl[id].locked_at = NULL
            /\ tbl[id].locked_by = NULL
            /\ \A j \in DOMAIN jobs \ {id} : tbl[j] = jobs[j]
            /\ retry_dlq_job_raises(tbl, id) = "not in DLQ"
            /\ retry_dlq_job(tbl, id, now) = tbl

\* retry_dlq_job has returned at a time later than the job's creation, and
\* the job is Pending with attempts 0
C15_Witness ==
    /\ last.op = "retry_dlq_job"
    /\ last.ret
    /\ jobs[last.id].state = PENDING
    /\ jobs[last.id].attempts = 0
    /\ jobs[last.id].locked_at = NULL
    /\ jobs[last.id].created_at < jobs[last.id].updated_at

\* C16: lock_job on a job that is locked (locked_at or locked_by set)
\* returns False and leaves the table as it was: state, attempts,
\* locked_by, locked_at and updated_at of the job are unchanged.
C16_ClaimOfLockedJobFails ==
    \A id \in DOMAIN jobs, w \in Workers :
        jobs[id].locked_at # NULL \/ jobs[id].locked_by # NULL =>
            /\ ~lock_job_returns(jobs, id)
            /\ lock_job(jobs, id, w, now) = jobs

\* lock_job has returned False on a locked job, at a time later than the
\* job's locked_at
C16_Witness ==
    /\ last.op = "lock_job"
    /\ ~last.ret
    /\ last.id \in DOMAIN jobs
    /\ jobs[last.id].locked_by # NULL
    /\ jobs[last.id].locked_at # Some(now)

\* C17: lock_job called with no other lock_job in progress returns True
\* exactly when the job exists and was unlocked; after a True the job is
\* Processing, locked_by is the caller and locked_at is set.
C17_ClaimResult ==
    \A id \in JobIds, w \in Workers :
        /\ lock_job_returns(jobs, id) <=>
              (id \in DOMAIN jobs /\ jobs[id].locked_at = NULL
                  /\ jobs[id].locked_by = NULL)
        /\ lock_job_returns(jobs, id) =>
              LET tbl == lock_job(jobs, id, w, now) IN
              /\ tbl[id].state = PROCESSING
              /\ tbl[id].locked_by = Some(w)
              /\ tbl[id].locked_at = Some(now)

\* lock_job has returned True, the job is Processing and locked
C17_Witness ==
    /\ last.op = "lock_job"
    /\ last.ret
    /\ jobs[last.id].state = PROCESSING
    /\ jobs[last.id].locked_by # NULL
    /\ jobs[last.id].locked_at = Some(now)

\* lock_job of an id that is not in the store has returned False
C17_WitnessUnknownId ==
    /\ last.op = "lock_job"
    /\ ~last.ret
    /\ last.id \notin DOMAIN jobs

\* C18: lock_job on an unlocked Completed, Failed or Dead job returns False
\* and does not make the job Processing.
C18_ClaimOnlyPending ==
    \A id \in DOMAIN jobs, w \in Workers :
        jobs[id].state \in {COMPLETED, FAILED, DEAD}
            /\ jobs[id].locked_at = NULL =>
                /\ ~lock_job_returns(jobs, id)
                /\ lock_job(jobs, id, w, now)[id].state # PROCESSING

\* ------------------------------------------------------------------ statistics
\* the jobs of the table that are in state s
JobsInState(s) == {j \in DOMAIN jobs : jobs[j].state = s}

\* C19: QueueManager.get_stats: total is the sum of the five named counts
\* and the number of jobs in the store, and each named count is the number
\* of jobs in that state; also on the empty store.
C19_QueueStats ==
    LET s == queue_get_stats(jobs) IN
    /\ s.total = s.pending + s.processing + s.completed + s.failed + s.dead
    /\ s.total = Cardinality(DOMAIN jobs)
    /\ s.pending = Cardinality(JobsInState(PENDING))
    /\ s.processing = Cardinality(JobsInState(PROCESSING))
    /\ s.completed = Cardinality(JobsInState(COMPLETED))
    /\ s.failed = Cardinality(JobsInState(FAILED))
    /\ s.dead = Cardinality(JobsInState(DEAD))

\* get_stats has returned total = MaxJobs on a store with two jobs in the
\* same state
C19_Witness ==
    /\ last.op = "get_stats"
    /\ last.id = MaxJobs
    /\ \E s \in JobState : Cardinality(JobsInState(s)) >= 2

\* get_stats has returned total = 0 on the empty store
C19_WitnessEmpty ==
    /\ last.op = "get_stats"
    /\ last.id = 0
    /\ DOMAIN jobs = {}

\* C20: Database.get_stats: the keys are exactly the five states, each with
\* the number of jobs in that state, 0 for a state no job is in; also on
\* the empty store.
C20_StoreStatsKeys ==
    /\ DOMAIN get_stats(jobs) = JobState
    /\ \A s \in JobState :
          get_stats(jobs)[s] = Cardinality(JobsInState(s))

\* get_stats has been called on a store with a Dead job and no Pending job
C20_Witness ==
    /\ last.op = "get_stats"
    /\ JobsInState(DEAD) # {}
    /\ JobsInState(PENDING) = {}
    /\ get_stats(jobs)[PENDING] = 0

\* get_stats on the empty store gives 0 for all five states
C20_WitnessEmpty ==
    /\ last.op = "get_stats"
    /\ DOMAIN jobs = {}
    /\ \A s \in JobState : get_stats(jobs)[s] = 0

\* ------------------------------------------------------------------ lock fields
\* C21: after any sequence of add_job, lock_job, unlock_job, update_job and
\* retry_dlq_job every job has locked_at and locked_by both NULL or both set.
C21_LockFieldsPaired ==
    \A j \in DOMAIN jobs :
        (jobs[j].locked_at = NULL) <=> (jobs[j].locked_by = NULL)

\* unlock_job has been called on a job that lock_job had made Processing:
\* both lock fields are NULL again
C21_Witness ==
    /\ last.op = "unlock_job"
    /\ last.id \in DOMAIN jobs
    /\ jobs[last.id].state = PROCESSING
    /\ jobs[last.id].locked_at = NULL
    /\ jobs[last.id].locked_by = NULL

\* C22: a job whose state is Processing is locked (locked_by is set).
C22_ProcessingIsLocked ==
    \A j \in DOMAIN jobs :
        jobs[j].state = PROCESSING => jobs[j].locked_by # NULL

\* ------------------------------------------------------------------ worker loop
\* C23: a command that fails (non-zero exit, timeout, exception in
\* subprocess.run) does not end the poll loop: _execute_job returns and the
\* worker goes on to the resolve write, the resolve write of a failed job
\* takes the worker back to the top of the loop with its running flag as it
\* was, and the loop ends only when the flag has been cleared by stop.
C23_FailedCommandKeepsLoop ==
    [][\A w \in Workers :
          /\ pc[w] = "execute" /\ pc'[w] # "execute" => pc'[w] = "resolve"
          /\ pc[w] = "resolve" /\ pc'[w] # "resolve"
                /\ ~execute_job(woutcome[w]) =>
                   pc'[w] = "loop" /\ running'[w] = running[w]
          /\ pc[w] # "stopped" /\ pc'[w] = "stopped" => ~running[w]
          /\ pc'[w] \in {"new", "loop", "lock_job", "lock_update", "execute",
                         "resolve", "stopped"}]_vars

\* worker 1 has run `false`, which failed, has written the failure back and
\* is at the top of its loop, running
C23_Witness ==
    /\ pc[1] = "loop"
    /\ running[1]
    /\ \E j \in DOMAIN jobs :
          /\ jobs[j].command = "false"
          /\ fails[j] >= 1
          /\ jobs[j].attempts >= 1
          /\ jobs[j].locked_at = NULL

\* C24: when the update_job that resolves a claimed job raises, the worker
\* logs the error and its loop goes on: no worker's loop is ended by the
\* exception.
C24_StoreFailureKeepsLoop ==
    \A w \in Workers : pc[w] # "crashed"

Stopping(w) == ~running[w] /\ pc[w] \notin {"new", "stopped"}

ListsExactly(lst, S) ==
    /\ {lst[i] : i \in DOMAIN lst} = S
    /\ Len(lst) = Cardinality(S)

\* C26: list_jobs without a filter returns all jobs, newest created_at
\* first; list_jobs with a state, get_jobs_by_state and get_dlq_jobs return
\* exactly the jobs in that state, oldest created_at first.
C26_ListOrder ==
    /\ \A lst \in list_jobs(jobs, NULL) :
          /\ ListsExactly(lst, DOMAIN jobs)
          /\ \A i, k \in DOMAIN lst :
                i < k => jobs[lst[i]].created_at >= jobs[lst[k]].created_at
    /\ \A st \in JobState :
          /\ list_jobs(jobs, Some(st)) = get_jobs_by_state(jobs, st)
          /\ \A lst \in get_jobs_by_state(jobs, st) :
                /\ ListsExactly(lst, JobsInState(st))
                /\ \A i, k \in DOMAIN lst :
                      i < k =>
                         jobs[lst[i]].created_at <= jobs[lst[k]].created_at
    /\ \A lst \in get_dlq_jobs(jobs) : ListsExactly(lst, JobsInState(DEAD))
    /\ list_jobs(jobs, NULL) # {}
    /\ \A st \in JobState : list_jobs(jobs, Some(st)) # {}

\* list_jobs has been called on a store with a Dead job and a Pending job
\* that was created later: the unfiltered list starts with the Pending job
C26_Witness ==
    /\ last.op = "list_jobs"
    /\ \E j, k \in DOMAIN jobs :
          /\ jobs[j].state = DEAD
          /\ jobs[k].state = PENDING
          /\ jobs[j].created_at < jobs[k].created_at
          /\ \A lst \in list_jobs(jobs, NULL) : lst[1] = k

\* ------------------------------------------------------------------ persistence
\* C27: under enqueue, worker ticks, retry_dlq_job, worker stop and restart
\* and opening the store again, no step removes a job from the store or
\* changes a job's command.
C27_NoImplicitDelete ==
    [][/\ DOMAIN jobs \subseteq DOMAIN jobs'
       /\ \A j \in DOMAIN jobs : jobs'[j].command = jobs[j].command]_vars

\* the store is full, worker 1 (which opened the store when it started) is
\* in its loop and has resolved every job, one of them to Dead
C27_Witness ==
    /\ DOMAIN jobs = JobIds
    /\ pc[1] = "loop"
    /\ running[1]
    /\ \E j \in DOMAIN jobs : jobs[j].state = DEAD /\ fails[j] >= 1
    /\ \A j \in DOMAIN jobs : jobs[j].state # PENDING

\* ------------------------------------------------------------------ dead letter queue
\* C28: for a job enqueued with max_retries >= 1: it is Dead only with
\* attempts = max_retries, it is Pending only with attempts < max_retries,
\* and once Dead it stays Dead until the write of retry_dlq_job on it.
C28_DeadAccounting ==
    /\ [](\A j \in DOMAIN jobs :
             jobs[j].max_retries >= 1 =>
                /\ jobs[j].state = DEAD =>
                      jobs[j].attempts = jobs[j].max_retries
                /\ jobs[j].state = PENDING =>
                      jobs[j].attempts < jobs[j].max_retries)
    /\ [][\A j \in DOMAIN jobs :
             jobs[j].max_retries >= 1 /\ jobs[j].state = DEAD
                   /\ jobs'[j].state # DEAD =>
                /\ cli.pc = "retry_write"
                /\ cli.job.id = j
                /\ cli'.pc = "idle"]_vars

\* ------------------------------------------------------------------ immutable fields
\* the tables that one lock_job, unlock_job, update_job (of a Job object
\* read from the store and changed in any of its fields but id) or
\* retry_dlq_job call can leave
AfterStoreCall ==
    {lock_job(jobs, id, w, now) : id \in JobIds, w \in Workers}
        \cup {unlock_job(jobs, id, now) : id \in JobIds}
        \cup {retry_dlq_job(jobs, id, now) : id \in JobIds}
        \cup {update_job(jobs, [row_to_job(id, jobs[id]) EXCEPT
                                   !.state = st, !.attempts = @ + 1,
                                   !.created_at = now, !.updated_at = now]) :
                 id \in DOMAIN jobs, st \in JobState}

\* C29: lock_job, unlock_job, update_job and retry_dlq_job leave the id and
\* the created_at of every job as they were.
C29_IdAndCreatedAtKept ==
    \A tbl \in AfterStoreCall :
        /\ DOMAIN tbl = DOMAIN jobs
        /\ \A j \in DOMAIN jobs :
              /\ tbl[j].created_at = jobs[j].created_at
              /\ get_job(tbl, j)[1].id = j
              /\ get_job(tbl, j)[1].created_at = jobs[j].created_at

\* update_job has resolved a job as Completed at a time later than its
\* creation: created_at is the time of the enqueue
C29_Witness ==
    /\ last.op = "update_job"
    /\ jobs[last.id].state = COMPLETED
    /\ jobs[last.id].created_at < jobs[last.id].updated_at
    /\ jobs[last.id].updated_at = now

\* C30: Config.get(k) after Config.set(k, v) returns v, from the instance
\* that set it and from a Config instance created afterwards on the same
\* file; a key that no set() call was ever made with returns its default to
\* every instance (max_retries = 3); after reset() the instance that reset,
\* and an instance created afterwards, return the defaults (max_retries = 3,
\* backoff_base = 2, worker_timeout = 300) and None for every other key.
C30_ConfigRoundTrip ==
    /\ \A i \in ConfigInstances, k \in ConfigKeys, v \in ConfigValues :
          LET c1 == config_set(conf, i, k, v)
          IN  /\ config_get(c1, i, k, None) = v
              /\ \A j \in ConfigInstances :
                    config_get(new_Config(c1, j), j, k, None) = v
    /\ \A i \in ConfigInstances, k \in DOMAIN DEFAULTS :
          k \notin {p[2] : p \in conf.ever_set} =>
              config_get(conf, i, k, None) = DEFAULTS[k]
    /\ DEFAULTS["max_retries"] = IntValue(3)
    /\ DEFAULTS["backoff_base"] = IntValue(2)
    /\ DEFAULTS["worker_timeout"] = IntValue(300)
    /\ \A i \in ConfigInstances :
          LET c2 == config_reset(conf, i)
          IN  \A j \in ConfigInstances, k \in DOMAIN DEFAULTS \cup ConfigKeys :
                 LET c3 == IF j = i THEN c2 ELSE new_Config(c2, j)
                 IN  config_get(c3, j, k, None) =
                        dict_get(DEFAULTS, k, None)

\* new_config, which never called set(), has read from the file the
\* custom_key and the max_retries that config set, and max_retries is no
\* longer its default
C30_Witness ==
    /\ last.op = "Config.get"
    /\ last.ret
    /\ \A p \in conf.ever_set : p[1] = "config"
    /\ conf.mem["new_config"] # NULL
    /\ config_get(conf, "new_config", "custom_key", None) =
          StrValue("custom_value")
    /\ config_get(conf, "new_config", "max_retries", None) = IntValue(5)
    /\ conf.file = Some(json_dump(conf.mem["new_config"][1]))

\* ------------------------------------------------------------------ lock discipline
\* the client makes the write of retry_dlq_job in this step
RetryWrites == cli.pc = "retry_write" /\ cli'.pc = "idle"

\* C31: a worker's resolve write on a job is made while the row's locked_by
\* names that worker (not another worker, not a cleared lock), and the write
\* of retry_dlq_job is made on a row that carries no lock.
C31_WritesByLockHolder ==
    [][/\ \A w \in Workers :
             Resolves(w) => jobs[wjob[w].id].locked_by = Some(w)
       /\ RetryWrites => jobs[cli.job.id].locked_by = NULL]_vars

\* ------------------------------------------------------------------ claim order
\* the jobs that are Pending and carry no lock
UnclaimedPending ==
    {j \in DOMAIN jobs : jobs[j].state = PENDING /\ jobs[j].locked_at = NULL}

\* worker w lists the pending jobs and picks one in this step
Picks(w) == pc[w] = "loop" /\ pc'[w] = "lock_job"

\* C32: get_pending_jobs returns exactly the Pending unlocked jobs, oldest
\* created_at first; the job a worker picks in a tick is Pending and unlocked
\* when listed and no Pending unlocked job has a smaller created_at; a failed
\* job that is resolved keeps its created_at, and no job with a larger
\* created_at is picked while it is Pending and unlocked.
C32_FifoClaimOrder ==
    /\ [](\A lst \in get_pending_jobs(jobs) :
             /\ {lst[i] : i \in DOMAIN lst} = UnclaimedPending
             /\ Len(lst) = Cardinality(UnclaimedPending)
             /\ \A i, k \in DOMAIN lst :
                   i < k => jobs[lst[i]].created_at <= jobs[lst[k]].created_at)
    /\ [][\A w \in Workers :
             /\ Picks(w) =>
                   /\ wjob'[w].id \in UnclaimedPending
                   /\ \A j \in UnclaimedPending :
                         jobs[wjob'[w].id].created_at <= jobs[j].created_at
                   /\ \A j \in UnclaimedPending :
                         fails[j] >= 1 =>
                            ~(jobs[j].created_at < jobs[wjob'[w].id].created_at)
             /\ Resolves(w) =>
                   jobs'[wjob[w].id].created_at = jobs[wjob[w].id].created_at]_vars

\* the worker has picked again a job that failed before, although a job
\* enqueued later is Pending and unlocked too
C32_Witness ==
    /\ pc[1] = "lock_job"
    /\ fails[wjob[1].id] >= 1
    /\ jobs[wjob[1].id].state = PENDING
    /\ \E k \in DOMAIN jobs :
          /\ jobs[k].state = PENDING
          /\ jobs[k].locked_at = NULL
          /\ jobs[k].created_at > jobs[wjob[1].id].created_at

\* ------------------------------------------------------------------ poll tick
\* the order of the positions of one tick of _process_next_job: from the loop
\* head to the claim, from the claim back to the loop head (lock_job returned
\* False) or on to the execution and the resolve write, and from there to
\* the loop head (after time.sleep)
TickOrder ==
    {<<"new", "loop">>, <<"stopped", "loop">>, <<"loop", "lock_job">>,
     <<"lock_job", "loop">>, <<"lock_job", "lock_update">>,
     <<"lock_update", "loop">>, <<"lock_update", "execute">>,
     <<"execute", "resolve">>, <<"resolve", "loop">>}

\* worker w's lock_job returns False in this step
ClaimFails(w) == pc[w] = "lock_job" /\ pc'[w] = "loop"

\* C33: the positions of a worker follow the order of one tick, so between
\* two visits of the loop head there is at most one claim attempt and at
\* most one execution; a failed claim leaves the store as it was and takes
\* the worker back to the loop head with no job; an execution starts only
\* after the worker's own claim; the only way from an execution back to the
\* loop head is the resolve write, which is in the store when the worker is
\* at the loop head again.
C33_OneClaimPerTick ==
    [][\A w \in Workers :
          /\ pc'[w] # pc[w] => <<pc[w], pc'[w]>> \in TickOrder
          /\ ClaimFails(w) => jobs' = jobs /\ wjob'[w] = NoJob
          /\ pc'[w] = "execute" /\ pc[w] # "execute" =>
                /\ pc[w] = "lock_update"
                /\ jobs'[wjob[w].id].locked_by = Some(w)
          /\ pc[w] \in {"execute", "resolve"} /\ pc'[w] = "loop" =>
                /\ pc[w] = "resolve"
                /\ jobs'[wjob[w].id].locked_at = NULL
                /\ jobs'[wjob[w].id].attempts >= wjob[w].attempts
                /\ jobs'[wjob[w].id].state \in {COMPLETED, PENDING, DEAD}
          /\ pc[w] = "loop" => wjob[w] = NoJob /\ woutcome[w] = "none"]_vars

\* worker 1 has resolved a failure in an earlier tick and claimed the job
\* again; worker 2, which listed the job while it was unlocked, is at its
\* claim, which fails
C33_Witness ==
    /\ fails[1] >= 1
    /\ jobs[1].attempts >= 1
    /\ pc[1] = "execute"
    /\ jobs[1].locked_by = Some(1)
    /\ pc[2] = "lock_job"
    /\ wjob[2].id = 1
    /\ lock_job_is_locked(jobs, 1)

\* ------------------------------------------------------------------ release
\* C34: unlock_job(id) leaves locked_at and locked_by NULL and state,
\* attempts, command and max_retries as they were, and changes no other job;
\* when a lock_job by one worker is followed by unlock_job, a lock_job by
\* another worker returns True and makes that worker the holder.
C34_ReleaseFrame ==
    \A id \in DOMAIN jobs :
        LET released == unlock_job(jobs, id, now) IN
        /\ released[id].locked_at = NULL
        /\ released[id].locked_by = NULL
        /\ released[id].state = jobs[id].state
        /\ released[id].attempts = jobs[id].attempts
        /\ released[id].command = jobs[id].command
        /\ released[id].max_retries = jobs[id].max_retries
        /\ \A k \in DOMAIN jobs : k # id => released[k] = jobs[k]
        /\ \A w1, w2 \in Workers :
              (w1 # w2 /\ lock_job_returns(jobs, id)) =>
                 LET claimed == lock_job(jobs, id, w1, now)
                     again == unlock_job(claimed, id, now)
                 IN  /\ claimed[id].locked_by = Some(w1)
                     /\ lock_job_returns(again, id)
                     /\ lock_job(again, id, w2, now)[id].locked_by = Some(w2)

\* a job that was claimed has been released: it is still Processing, with
\* its command, and carries no lock, while another job is still locked
C34_Witness ==
    /\ last.op = "unlock_job"
    /\ last.id \in DOMAIN jobs
    /\ jobs[last.id].state = PROCESSING
    /\ jobs[last.id].command = "echo ok"
    /\ jobs[last.id].locked_at = NULL
    /\ \E k \in DOMAIN jobs :
          k # last.id /\ jobs[k].state = PROCESSING /\ jobs[k].locked_by # NULL

\* ------------------------------------------------------------------ resolve write
\* C35: the update_job of a worker that resolves its job writes the new
\* state and attempts and NULLs locked_at and locked_by in the same write,
\* and in no state is a Completed, Pending or Dead job marked as locked.
C35_ResolveClearsLock ==
    /\ \A j \in DOMAIN jobs :
          jobs[j].state \in {COMPLETED, PENDING, DEAD} =>
             jobs[j].locked_at = NULL /\ jobs[j].locked_by = NULL
    /\ \A w \in Workers :
          pc[w] = "resolve" =>
             LET job == resolve_job(wjob[w], execute_job(woutcome[w]), now)
                 written == update_job(jobs, job)
             IN  /\ written[job.id].state = job.state
                 /\ written[job.id].attempts = job.attempts
                 /\ written[job.id].locked_at = NULL
                 /\ written[job.id].locked_by = NULL

\* every worker is back at the loop head after the job was claimed, run and
\* resolved to Dead; the row carries no lock
C35_Witness ==
    /\ 1 \in DOMAIN jobs
    /\ jobs[1].state = DEAD
    /\ fails[1] >= 1
    /\ jobs[1].locked_by = NULL
    /\ \A w \in Workers : pc[w] = "loop" /\ wjob[w] = NoJob

CrashedHolding(w) == pc[w] = "crashed" /\ wjob[w] # NoJob

\* C37: once a worker has been killed between its successful claim of a job
\* and its resolve write, the job is Processing and locked by that worker in
\* every later state, and no step of another worker changes its row.
C37_CrashedJobStaysClaimed ==
    /\ [](\A w \in Workers :
             CrashedHolding(w) =>
                /\ jobs[wjob[w].id].state = PROCESSING
                /\ jobs[wjob[w].id].locked_by = Some(w))
    /\ [][\A w \in Workers :
             CrashedHolding(w) =>
                jobs'[wjob[w].id] = jobs[wjob[w].id]]_vars

\* ------------------------------------------------------------------ progress
\* some worker is in its poll loop
SomeWorkerPolls == \E w \in Workers : pc[w] \notin {"new", "stopped", "crashed"}

TurnOf(i) == ((i - 1) % NumWorkers) + 1

\* the table after lock_job on the jobs 1..n, in this order, the workers
\* taking turns
RECURSIVE lock_each(_, _)
lock_each(tbl, n) ==
    IF n = 0 THEN tbl
    ELSE lock_job(lock_each(tbl, n - 1), n, TurnOf(n), now)

\* C39: lock_job(j, w) leaves every row other than j as it was; on a job
\* without a lock it returns True and makes the job Processing and locked by
\* w, whatever locks the other jobs carry; when every job is Pending and
\* unlocked and each is claimed once, the workers taking turns, all of them
\* are Processing, each locked by the worker that claimed it.
C39_IndependentClaims ==
    /\ \A id \in JobIds, w \in Workers :
          LET t == lock_job(jobs, id, w, now) IN
          /\ DOMAIN t = DOMAIN jobs
          /\ \A k \in DOMAIN jobs : k # id => t[k] = jobs[k]
          /\ (id \in DOMAIN jobs /\ jobs[id].locked_at = NULL) =>
                /\ lock_job_returns(jobs, id)
                /\ t[id].state = PROCESSING
                /\ t[id].locked_by = Some(w)
    /\ (\A j \in DOMAIN jobs :
           jobs[j].state = PENDING /\ jobs[j].locked_at = NULL) =>
          \A j \in DOMAIN jobs :
             /\ lock_each(jobs, Cardinality(DOMAIN jobs))[j].state = PROCESSING
             /\ lock_each(jobs, Cardinality(DOMAIN jobs))[j].locked_by =
                   Some(TurnOf(j))

\* a full store whose jobs were claimed one each by the workers in turn: the
\* last claim returned True and every job is Processing with its own holder
C39_Witness ==
    /\ DOMAIN jobs = JobIds
    /\ last.op = "lock_job"
    /\ last.ret
    /\ \A j \in JobIds :
          jobs[j].state = PROCESSING /\ jobs[j].locked_by = Some(TurnOf(j))

\* ------------------------------------------------------------------ worker manager
\* worker w is in its poll loop with running = True
Polling(w) == running[w] /\ pc[w] \notin {"new", "stopped", "crashed"}

\* C40: after start_workers(NumWorkers) there is a moment at which all
\* NumWorkers workers are in their poll loops with running = True.
C40_AllWorkersPoll ==
    <>(\A w \in Workers : Polling(w))

\* what holds instead: in every state at most one of the workers of
\* start_workers is in its poll loop
OnePollsAtATime == Cardinality({w \in Workers : Polling(w)}) <= 1

====
